---- MODULE Spec2Model ----
(***************************************************************************)
(* State-machine model of the PDF / Google-Docs to podcast pipeline        *)
(* (src/main.py, src/google_docs.py).                                      *)
(*                                                                         *)
(* One run of generate_audio is a process r \in Requests whose position is *)
(* pc[r].  The host serves several requests at once (demo.queue with       *)
(* default_concurrency_limit=20), so the runs interleave at the            *)
(* granularity of their external calls and system calls; the artifact      *)
(* directory and the clock are shared.                                     *)
(***************************************************************************)
EXTENDS Integers, Sequences, FiniteSets, TLC

VARIABLES
    pool,            \* raw responses the LLM may produce in this run of the model
    pc,              \* pc[r]: position of request r inside generate_audio
    err,             \* err[r]: message of the exception that left generate_audio
    api_key,         \* api_key[r]: openai_api_key or os.getenv("OPENAI_API_KEY")
    text,            \* text[r]: the extracted document text
    llm_output,      \* llm_output[r]: the validated Dialogue (its `dialogue` list)
    idx,             \* idx[r]: 1-based position of the for loop over the lines
    attempt,         \* attempt[r]: tenacity attempt_number of the current get_mp3 call
    waits,           \* waits[r]: back-off waits slept so far in the current get_mp3 call
    lastErr,         \* lastErr[r]: exception raised by the last synthesis attempt
    audio,           \* audio[r]: the bytes accumulator
    transcript,      \* transcript[r]: the transcript string (sequence of characters)
    characters,      \* characters[r]: the running character counter
    results,         \* results[r]: per finished line, what get_mp3 gave (history)
    llmCalls,        \* llmCalls[r]: calls made to the dialogue generator
    docReads,        \* docReads[r]: document reads made
    synthIssued,     \* synthIssued[r]: some synthesis request has been issued
    slept,           \* slept[r]: milliseconds spent in the inter-request time.sleep
    temporary_file,  \* temporary_file[r]: name of the artifact created by r
    todo,            \* todo[r]: names returned by glob and not yet visited
    file,            \* file[r]: the sweep loop's current name
    staleAtGlob,     \* staleAtGlob[r]: .mp3 regular files over a day old when r's sweep began
    fs,              \* the artifact directory: name -> [kind, mtime, data]
    dirExists,       \* whether ./gradio_cached_examples/tmp/ exists
    now,             \* last reading of the wall clock (seconds)
    credentials_json,    \* whether the file credentials.json exists
    token_json,          \* the file token.json: absent, or the state of the token in it
    auth_status_output,  \* the Markdown under "Check Auth Status"
    auth_url_output,     \* the Markdown under "Get Auth URL"
    callback_output,     \* what handle_google_auth_callback returned last
    callback_response,   \* what GET /oauth2callback answered last
    auth_code            \* the authorization code handed to authenticate_google_docs last

vars == <<pool, pc, err, api_key, text, llm_output, idx, attempt, waits, lastErr, audio,
          transcript, characters, results, llmCalls, docReads, synthIssued,
          slept, temporary_file, todo, file, staleAtGlob, fs, dirExists, now,
          credentials_json, token_json, auth_status_output, auth_url_output,
          callback_output, callback_response, auth_code>>

\* Everything that belongs to the runs of generate_audio.
runVars == <<pool, pc, err, api_key, text, llm_output, idx, attempt, waits, lastErr, audio,
             transcript, characters, results, llmCalls, docReads, synthIssued,
             slept, temporary_file, todo, file, staleAtGlob, fs, dirExists, now>>

\* The Google sign-in: the two files and what the interface shows.
authVars == <<credentials_json, token_json, auth_status_output, auth_url_output,
              callback_output, callback_response, auth_code>>

(***************************************************************************)
(* Bounds of the exploration.                                              *)
(***************************************************************************)
MaxLines == 2        \* longest dialogue the LLM returns
MaxLlmCalls == 2     \* cap on the (otherwise unbounded) regeneration counter

Requests == {"r1", "r2"}

(***************************************************************************)
(* Dialogue model (main.py:51-66).                                         *)
(***************************************************************************)
Speakers == {"female-1", "male-1", "female-2"}

Texts == {<<"H", "i">>, <<"o", "k", ".">>}

DialogueItem == [speaker : Speakers, text : Texts]

\* Variant of the voice table with no entry for the third speaker: dict.get
\* style, the lookup gives None.
voiceUnmapped(speaker) ==
    CASE speaker = "female-1" -> "alloy"
      [] speaker = "male-1"   -> "onyx"
      [] OTHER                -> "None"

\* main.py:55-61, DialogueItem.voice
voice(speaker) ==
    CASE speaker = "female-1" -> "alloy"
      [] speaker = "male-1"   -> "onyx"
      [] speaker = "female-2" -> "shimmer"

\* What pydantic accepts as the `dialogue` field of a Dialogue.
Validates(raw) == \A k \in 1..Len(raw) : raw[k] \in DialogueItem

SeqsUpTo(S, n) == UNION {[1..k -> S] : k \in 0..n}

\* The lines the LLM writes in this model: every speaker, two texts.
SampleLines ==
    { [speaker |-> "female-1", text |-> <<"H", "i">>],
      [speaker |-> "male-1", text |-> <<"o", "k", ".">>],
      [speaker |-> "female-2", text |-> <<"H", "i">>] }

\* A response whose speaker is outside the Literal: pydantic raises ValidationError.
MalformedResponse == <<[speaker |-> "narrator", text |-> <<"H", "i">>]>>

(***************************************************************************)
(* Strings are sequences of characters.                                    *)
(***************************************************************************)
Whitespace == {" ", "\n"}

RECURSIVE LStrip(_)
LStrip(s) == IF s # <<>> /\ Head(s) \in Whitespace THEN LStrip(Tail(s)) ELSE s

RECURSIVE RStrip(_)
RStrip(s) ==
    IF s # <<>> /\ s[Len(s)] \in Whitespace THEN RStrip(SubSeq(s, 1, Len(s) - 1)) ELSE s

\* Variant of strip that strips nothing (`if not text:`).
stripNothing(s) == s

strip(s) == RStrip(LStrip(s))

\* Texts a document source may yield: empty, whitespace only, real content.
DocTexts == {<<>>, <<" ", "\n">>, <<" ", "D", "o", "c">>}

\* The two document sources and their errors (main.py:153-171): every
\* exception of the extraction, the inner gr.Error of an empty text included,
\* is caught and wrapped.
Sources == {"Google Docs", "PDF"}

NoTextError(source) ==
    IF source = "PDF"
    THEN "Failed to process PDF: No text content found in the PDF"
    ELSE "Failed to process Google Docs: No text content found in the Google Docs document"

UnreadableError(source) ==
    IF source = "PDF"
    THEN "Failed to process PDF: cannot read the file"
    ELSE "Failed to process Google Docs: cannot fetch the document"

\* os.getenv("OPENAI_API_KEY") / the openai_api_key parameter: None, "" or a key.
KeyValues == {"None", "", "sk-key"}

\* Variant of Truthy that only tests for None.
TruthyNotNone(k) == k # "None"

Truthy(k) == k \notin {"None", ""}

\* Python's `a or b`
Or(a, b) == IF Truthy(a) THEN a ELSE b

(***************************************************************************)
(* Speech synthesizer: the retry policy of get_mp3 (main.py:69-73).        *)
(***************************************************************************)
MaxAttemptsOneLess == 5 - 1   \* variant of MaxAttempts: stop_after_attempt(4)
MaxAttempts == 5          \* stop_after_attempt(5)
WaitMultiplier == 1       \* wait_exponential(multiplier=1, ...)
WaitMin == 4              \* wait_exponential(min=4, ...)
WaitMax == 60             \* wait_exponential(max=60)

Min(a, b) == IF a < b THEN a ELSE b
Max(a, b) == IF a > b THEN a ELSE b

RECURSIVE Pow2(_)
Pow2(n) == IF n <= 0 THEN 1 ELSE 2 * Pow2(n - 1)

\* Variant of wait_exponential without the lower clamp (min=4 left out).
wait_exponentialNoMin(attempt_number) ==
    Min(WaitMultiplier * Pow2(attempt_number - 1), WaitMax)

\* tenacity.wait_exponential.__call__: multiplier * 2^(attempt_number - 1),
\* clamped into [min, max].
wait_exponential(attempt_number) ==
    Max(Max(0, WaitMin), Min(WaitMultiplier * Pow2(attempt_number - 1), WaitMax))

\* Audio payloads the speech service may return for a line.
Payloads == {<<1>>, <<2, 3>>}

(***************************************************************************)
(* Transcript records (main.py:220, 226, 235).                             *)
(***************************************************************************)
\* Variant of AppendChunk that puts the new chunk in front.
AppendChunkInFront(acc, audio_chunk) == audio_chunk \o acc

\* audio += audio_chunk
AppendChunk(acc, audio_chunk) == acc \o audio_chunk

SleepMs == 200            \* time.sleep(0.2), in milliseconds

FailureMarker == " [AUDIO GENERATION FAILED]"
RecordEnd == "\n\n"

transcript_line(line) == <<line.speaker, ": ">> \o line.text

SuccessRecord(line) == transcript_line(line) \o <<RecordEnd>>

\* Variant of FailedRecord that forgets the marker.
FailedRecordUnmarked(line) == transcript_line(line) \o <<RecordEnd>>

FailedRecord(line) == transcript_line(line) \o <<FailureMarker, RecordEnd>>

(***************************************************************************)
(* The artifact directory (main.py:239-254).  File names are sequences of  *)
(* characters.                                                             *)
(***************************************************************************)
Retention == 24 * 60 * 60

Mp3Suffix == <<".", "m", "p", "3">>

EndsWith(s, suf) ==
    /\ Len(s) >= Len(suf)
    /\ SubSeq(s, Len(s) - Len(suf) + 1, Len(s)) = suf

\* glob.glob(f"{temporary_directory}*.mp3"): fnmatch of "*.mp3"; a pattern that
\* does not itself start with a dot never matches a name starting with a dot.
GlobMatch(name) == EndsWith(name, Mp3Suffix) /\ Head(name) # "."

\* NamedTemporaryFile(dir=..., suffix=".mp3"): "tmp" + random characters + suffix.
RandomChars == {"a", "b"}
TempName(c) == <<"t", "m", "p", c>> \o Mp3Suffix

StartTime == 2 * Retention
MaxTime == StartTime + 1

\* A reading of time.time(): the previous reading or a later one.
ClockReadings(last) == {t \in {last, last + 1} : t <= MaxTime}

EmptyFs == [n \in {} |-> [kind |-> "file", mtime |-> 0, data |-> <<>>]]

\* What earlier runs and other programs left in the directory.
SeedFs ==
    LET entries == {
          \* an artifact of an earlier run, over a day old
          <<TempName("z"), [kind |-> "file", mtime |-> StartTime - Retention - 1, data |-> <<7>>]>>,
          \* an .mp3 exactly one day old at StartTime, older after that
          <<<<"x">> \o Mp3Suffix, [kind |-> "file", mtime |-> StartTime - Retention, data |-> <<8>>]>>,
          \* a hidden .mp3 over a day old
          <<<<".", "h">> \o Mp3Suffix, [kind |-> "file", mtime |-> StartTime - Retention - 1, data |-> <<9>>]>>,
          \* an old file of another type
          <<<<"n", ".", "t", "x", "t">>, [kind |-> "file", mtime |-> StartTime - Retention - 1, data |-> <<>>]>> }
    IN  [n \in {e[1] : e \in entries} |-> (CHOOSE e \in entries : e[1] = n)[2]]

isfile(dir, name) == name \in DOMAIN dir /\ dir[name].kind = "file"

WithFile(dir, name, rec) == [n \in DOMAIN dir \cup {name} |-> IF n = name THEN rec ELSE dir[n]]

WithoutFile(dir, name) == [n \in DOMAIN dir \ {name} |-> dir[n]]

(***************************************************************************)
(* Google Docs sign-in (google_docs.py:20-89, 174-183; main.py:32-48,       *)
(* 90-126).  A message is the sequence of its phrases, so that `in` on      *)
(* strings is a search for a phrase; the emoji that start the interface     *)
(* texts are left out.                                                      *)
(***************************************************************************)
\* token.json: no file; a valid token; an expired token with a refresh token;
\* a token that is not valid and cannot be refreshed.
TokenStates == {"absent", "valid", "expired", "unusable"}

NoError == <<>>

OAuthRequired ==
    <<"OAuth authentication required", ". Please use the web interface to authenticate.">>

CredentialsNotFoundAtLogin ==
    <<"Credentials file", " 'credentials.json' not found. ",
      "Please download it from Google Cloud Console.">>

CredentialsNotFound == <<"Credentials file", " 'credentials.json' not found.">>

RefreshError == <<"invalid_grant: Token has been expired or revoked.">>

InvalidGrantError == <<"(invalid_grant) Bad Request">>

authorization_url == <<"https://accounts.google.com/o/oauth2/auth?access_type=offline">>

\* `phrase in str(e)`
Contains(e, phrase) == \E i \in 1..Len(e) : e[i] = phrase

\* google_docs.py:20-51, GoogleDocsClient.__init__ and _authenticate: the
\* exception the constructor raises, NoError when it builds the service.
\* refresh_ok is the outcome of creds.refresh(Request()).
GoogleDocsClient(credentials, token, refresh_ok) ==
    IF token = "valid" THEN NoError
    ELSE IF token = "expired"
         THEN (IF refresh_ok THEN NoError ELSE RefreshError)
         ELSE IF ~credentials THEN CredentialsNotFoundAtLogin
              ELSE OAuthRequired

\* google_docs.py:53-69 and 174-177
create_google_oauth_url(credentials, token, refresh_ok) ==
    LET e == GoogleDocsClient(credentials, token, refresh_ok)
    IN  IF e # NoError THEN [raised |-> TRUE, value |-> e]
        ELSE IF ~credentials THEN [raised |-> TRUE, value |-> CredentialsNotFound]
             ELSE [raised |-> FALSE, value |-> authorization_url]

AuthCodes == {"good", "bad"}

\* google_docs.py:71-89 and 180-183: the exception raised (NoError if none) and
\* token.json afterwards
authenticate_google_docs(authorization_code, credentials, token, refresh_ok) ==
    LET e == GoogleDocsClient(credentials, token, refresh_ok)
    IN  IF e # NoError THEN [raised |-> e, token |-> token]
        ELSE IF ~credentials THEN [raised |-> CredentialsNotFound, token |-> token]
             ELSE IF authorization_code # "good"
                  THEN [raised |-> InvalidGrantError, token |-> token]
                  ELSE [raised |-> NoError, token |-> "valid"]

\* main.py:274-275, the texts the interface starts with
AuthStatusPlaceholder ==
    <<"Click 'Check Auth Status' to see your authentication status">>

AuthUrlPlaceholder == <<"Click 'Get Auth URL' to get the authorization link">>

\* A deployment in which Google Docs was never set up.
NoGoogleSetup ==
    /\ credentials_json = FALSE
    /\ token_json = "absent"
    /\ auth_status_output = AuthStatusPlaceholder
    /\ auth_url_output = AuthUrlPlaceholder
    /\ callback_output = <<>>
    /\ callback_response = <<>>
    /\ auth_code = "None"

(***************************************************************************)
(* Initial states.                                                         *)
(***************************************************************************)
InitRuns(active, responses) ==
    /\ pool = responses
    /\ pc = [r \in Requests |-> IF r \in active THEN "check_key" ELSE "off"]
    /\ err = [r \in Requests |-> ""]
    /\ api_key = [r \in Requests |-> "None"]
    /\ text = [r \in Requests |-> <<>>]
    /\ llm_output = [r \in Requests |-> <<>>]
    /\ idx = [r \in Requests |-> 1]
    /\ attempt = [r \in Requests |-> 0]
    /\ waits = [r \in Requests |-> <<>>]
    /\ lastErr = [r \in Requests |-> ""]
    /\ audio = [r \in Requests |-> <<>>]
    /\ transcript = [r \in Requests |-> <<>>]
    /\ characters = [r \in Requests |-> 0]
    /\ results = [r \in Requests |-> <<>>]
    /\ llmCalls = [r \in Requests |-> 0]
    /\ docReads = [r \in Requests |-> 0]
    /\ synthIssued = [r \in Requests |-> FALSE]
    /\ slept = [r \in Requests |-> 0]
    /\ temporary_file = [r \in Requests |-> <<>>]
    /\ todo = [r \in Requests |-> {}]
    /\ file = [r \in Requests |-> <<>>]
    /\ staleAtGlob = [r \in Requests |-> {}]
    /\ \E seeded \in BOOLEAN :
          /\ dirExists = seeded
          /\ fs = IF seeded THEN SeedFs ELSE EmptyFs
    /\ now = StartTime

InitWith(active, responses) == InitRuns(active, responses) /\ NoGoogleSetup

\* One request, every dialogue of up to MaxLines lines.
Init == InitWith({"r1"}, SeqsUpTo(SampleLines, MaxLines) \cup {MalformedResponse})

\* The state of a run that has left the for loop over the one-line dialogue
\* `dlg`, whose only line was synthesized into `chunk`.
AfterLoop(dlg, chunk) ==
    [text |-> <<" ", "D", "o", "c">>, llm_output |-> dlg, idx |-> Len(dlg) + 1,
     audio |-> chunk, transcript |-> SuccessRecord(dlg[1]),
     characters |-> Len(dlg[1].text),
     results |-> <<[kind |-> "ok", chunk |-> chunk]>>]

PersistStart ==
    [r \in Requests |->
        IF r = "r1"
        THEN AfterLoop(<<[speaker |-> "female-1", text |-> <<"H", "i">>]>>, <<1>>)
        ELSE AfterLoop(<<[speaker |-> "male-1", text |-> <<"o", "k", ".">>]>>, <<2, 3>>)]

\* Two requests served concurrently, both about to persist their audio.
InitPersist ==
    /\ pool = {PersistStart[r].llm_output : r \in Requests}
    /\ pc = [r \in Requests |-> "makedirs"]
    /\ err = [r \in Requests |-> ""]
    /\ api_key = [r \in Requests |-> "sk-key"]
    /\ text = [r \in Requests |-> PersistStart[r].text]
    /\ llm_output = [r \in Requests |-> PersistStart[r].llm_output]
    /\ idx = [r \in Requests |-> PersistStart[r].idx]
    /\ attempt = [r \in Requests |-> 0]
    /\ waits = [r \in Requests |-> <<>>]
    /\ lastErr = [r \in Requests |-> ""]
    /\ audio = [r \in Requests |-> PersistStart[r].audio]
    /\ transcript = [r \in Requests |-> PersistStart[r].transcript]
    /\ characters = [r \in Requests |-> PersistStart[r].characters]
    /\ results = [r \in Requests |-> PersistStart[r].results]
    /\ llmCalls = [r \in Requests |-> 1]
    /\ docReads = [r \in Requests |-> 1]
    /\ synthIssued = [r \in Requests |-> TRUE]
    /\ slept = [r \in Requests |-> SleepMs * Len(PersistStart[r].results)]
    /\ temporary_file = [r \in Requests |-> <<>>]
    /\ todo = [r \in Requests |-> {}]
    /\ file = [r \in Requests |-> <<>>]
    /\ staleAtGlob = [r \in Requests |-> {}]
    /\ \E seeded \in BOOLEAN :
          /\ dirExists = seeded
          /\ fs = IF seeded THEN SeedFs ELSE EmptyFs
    /\ now = StartTime
    /\ NoGoogleSetup

\* The dialogues of two requests served concurrently.
PairStart ==
    [r \in Requests |->
        IF r = "r1"
        THEN <<[speaker |-> "female-1", text |-> <<"H", "i">>],
               [speaker |-> "male-1", text |-> <<"o", "k", ".">>]>>
        ELSE <<[speaker |-> "female-2", text |-> <<"H", "i">>]>>]

\* Two requests served concurrently, both entering the loop over their lines.
InitPair ==
    /\ pool = {PairStart[r] : r \in Requests}
    /\ pc = [r \in Requests |-> "for_line"]
    /\ err = [r \in Requests |-> ""]
    /\ api_key = [r \in Requests |-> "sk-key"]
    /\ text = [r \in Requests |-> <<" ", "D", "o", "c">>]
    /\ llm_output = PairStart
    /\ idx = [r \in Requests |-> 1]
    /\ attempt = [r \in Requests |-> 0]
    /\ waits = [r \in Requests |-> <<>>]
    /\ lastErr = [r \in Requests |-> ""]
    /\ audio = [r \in Requests |-> <<>>]
    /\ transcript = [r \in Requests |-> <<>>]
    /\ characters = [r \in Requests |-> 0]
    /\ results = [r \in Requests |-> <<>>]
    /\ llmCalls = [r \in Requests |-> 1]
    /\ docReads = [r \in Requests |-> 1]
    /\ synthIssued = [r \in Requests |-> FALSE]
    /\ slept = [r \in Requests |-> 0]
    /\ temporary_file = [r \in Requests |-> <<>>]
    /\ todo = [r \in Requests |-> {}]
    /\ file = [r \in Requests |-> <<>>]
    /\ staleAtGlob = [r \in Requests |-> {}]
    /\ \E seeded \in BOOLEAN :
          /\ dirExists = seeded
          /\ fs = IF seeded THEN SeedFs ELSE EmptyFs
    /\ now = StartTime
    /\ NoGoogleSetup

(***************************************************************************)
(* generate_audio, step by step (main.py:143-256).                         *)
(***************************************************************************)
docVars == <<api_key, text, docReads>>
llmVars == <<llm_output, llmCalls>>
loopVars == <<idx, attempt, waits, lastErr, audio, transcript, characters, results,
              synthIssued>>
sweepVars == <<todo, file, staleAtGlob>>
dirVars == <<temporary_file, fs, dirExists, now>>

Goto(r, label) == pc' = [pc EXCEPT ![r] = label]

\* An exception leaves generate_audio.
Raise(r, e) ==
    /\ pc' = [pc EXCEPT ![r] = "raised"]
    /\ err' = [err EXCEPT ![r] = e]

\* main.py:145-146
CheckKey(r) ==
    /\ pc[r] = "check_key"
    /\ \E env \in KeyValues, openai_api_key \in KeyValues :
          /\ api_key' = [api_key EXCEPT ![r] = Or(openai_api_key, env)]
          /\ IF ~(Truthy(env) \/ Truthy(openai_api_key))
             THEN Raise(r, "OpenAI API key is required")
             ELSE Goto(r, "read_document") /\ UNCHANGED err
    /\ UNCHANGED <<authVars, pool, slept, text, docReads, llmVars, loopVars, sweepVars, dirVars>>

\* main.py:151-171, the document source yields a text
ReadDocument(r) ==
    /\ pc[r] = "read_document"
    /\ docReads' = [docReads EXCEPT ![r] = @ + 1]
    /\ \E source \in Sources, got \in DocTexts :
          IF strip(got) = <<>>
          THEN Raise(r, NoTextError(source)) /\ UNCHANGED text
          ELSE /\ text' = [text EXCEPT ![r] = got]
               /\ Goto(r, "generate_dialogue")
               /\ UNCHANGED err
    /\ UNCHANGED <<authVars, pool, slept, api_key, llmVars, loopVars, sweepVars, dirVars>>

\* Variant of ReadDocumentFails in which the artifact directory is made before
\* the document is read.
ReadDocumentFailsAfterMakedirs(r) ==
    /\ pc[r] = "read_document"
    /\ docReads' = [docReads EXCEPT ![r] = @ + 1]
    /\ dirExists' = TRUE
    /\ \E source \in Sources : Raise(r, UnreadableError(source))
    /\ UNCHANGED <<authVars, pool, slept, api_key, text, llmVars, loopVars, sweepVars, temporary_file,
                   fs, now>>

\* main.py:158-160, 169-171, the document source raises (unreadable file,
\* no OAuth token, no document id in the URL, HTTP error)
ReadDocumentFails(r) ==
    /\ pc[r] = "read_document"
    /\ docReads' = [docReads EXCEPT ![r] = @ + 1]
    /\ \E source \in Sources : Raise(r, UnreadableError(source))
    /\ UNCHANGED <<authVars, pool, slept, api_key, text, llmVars, loopVars, sweepVars, dirVars>>

\* main.py:173-211, one call of the LLM; @retry(retry_if_exception_type(
\* ValidationError)) has no stop condition and no wait
GenerateDialogue(r) ==
    /\ pc[r] = "generate_dialogue"
    /\ llmCalls[r] < MaxLlmCalls
    /\ llmCalls' = [llmCalls EXCEPT ![r] = @ + 1]
    /\ \E raw \in pool :
          IF Validates(raw)
          THEN /\ llm_output' = [llm_output EXCEPT ![r] = raw]
               /\ Goto(r, "for_line")
          ELSE UNCHANGED <<llm_output, pc>>
    /\ UNCHANGED <<authVars, pool, slept, err, docVars, loopVars, sweepVars, dirVars>>

\* main.py:211, the LLM call raises something that is no ValidationError
GenerateDialogueFails(r) ==
    /\ pc[r] = "generate_dialogue"
    /\ llmCalls[r] < MaxLlmCalls
    /\ llmCalls' = [llmCalls EXCEPT ![r] = @ + 1]
    /\ Raise(r, "LLM call failed")
    /\ UNCHANGED <<authVars, pool, slept, docVars, llm_output, loopVars, sweepVars, dirVars>>

\* main.py:219, the head of the for loop
ForLine(r) ==
    /\ pc[r] = "for_line"
    /\ IF idx[r] > Len(llm_output[r])
       THEN Goto(r, "makedirs")
       ELSE Goto(r, "get_mp3")
    /\ UNCHANGED <<authVars, pool, slept, err, docVars, llmVars, loopVars, sweepVars, dirVars>>

Line(r) == llm_output[r][idx[r]]

\* main.py:74-87 and 224-227, a synthesis request that succeeds
GetMp3Ok(r) ==
    /\ pc[r] = "get_mp3"
    /\ voice(Line(r).speaker) \in {"alloy", "onyx", "shimmer"}
    /\ attempt' = [attempt EXCEPT ![r] = @ + 1]
    /\ synthIssued' = [synthIssued EXCEPT ![r] = TRUE]
    /\ \E audio_chunk \in Payloads :
          /\ audio' = [audio EXCEPT ![r] = AppendChunk(@, audio_chunk)]
          /\ results' = [results EXCEPT ![r] =
                            Append(@, [kind |-> "ok", chunk |-> audio_chunk])]
    /\ transcript' = [transcript EXCEPT ![r] = @ \o SuccessRecord(Line(r))]
    /\ characters' = [characters EXCEPT ![r] = @ + Len(Line(r).text)]
    /\ Goto(r, "sleep")
    /\ UNCHANGED <<authVars, pool, slept, err, docVars, llmVars, idx, waits, lastErr, sweepVars, dirVars>>

\* Variant of GetMp3RateLimited that retries at once, without a back-off wait.
GetMp3RateLimitedNoWait(r) ==
    /\ pc[r] = "get_mp3"
    /\ attempt' = [attempt EXCEPT ![r] = @ + 1]
    /\ synthIssued' = [synthIssued EXCEPT ![r] = TRUE]
    /\ IF attempt[r] + 1 >= MaxAttempts
       THEN /\ lastErr' = [lastErr EXCEPT ![r] = "RetryError"]
            /\ Goto(r, "except")
       ELSE /\ lastErr' = [lastErr EXCEPT ![r] = "RateLimitError"]
            /\ Goto(r, "get_mp3")
    /\ UNCHANGED <<authVars, pool, slept, err, docVars, llmVars, idx, waits, audio, transcript,
                   characters, results, sweepVars, dirVars>>

\* main.py:69-73, a synthesis request that fails with RateLimitError: tenacity
\* waits and retries, or gives up (RetryError) after MaxAttempts attempts
GetMp3RateLimited(r) ==
    /\ pc[r] = "get_mp3"
    /\ attempt' = [attempt EXCEPT ![r] = @ + 1]
    /\ synthIssued' = [synthIssued EXCEPT ![r] = TRUE]
    /\ IF attempt[r] + 1 >= MaxAttempts
       THEN /\ lastErr' = [lastErr EXCEPT ![r] = "RetryError"]
            /\ Goto(r, "except")
            /\ UNCHANGED waits
       ELSE /\ waits' = [waits EXCEPT ![r] = Append(@, wait_exponential(attempt[r] + 1))]
            /\ lastErr' = [lastErr EXCEPT ![r] = "RateLimitError"]
            /\ Goto(r, "wait")
    /\ UNCHANGED <<authVars, pool, slept, err, docVars, llmVars, idx, audio, transcript, characters,
                   results, sweepVars, dirVars>>

\* Variant of GetMp3Error that retries on every exception.
GetMp3ErrorRetried(r) ==
    /\ pc[r] = "get_mp3"
    /\ attempt[r] + 1 < MaxAttempts
    /\ attempt' = [attempt EXCEPT ![r] = @ + 1]
    /\ synthIssued' = [synthIssued EXCEPT ![r] = TRUE]
    /\ lastErr' = [lastErr EXCEPT ![r] = "APIError"]
    /\ waits' = [waits EXCEPT ![r] = Append(@, wait_exponential(attempt[r] + 1))]
    /\ Goto(r, "wait")
    /\ UNCHANGED <<authVars, pool, slept, err, docVars, llmVars, idx, audio, transcript, characters,
                   results, sweepVars, dirVars>>

\* main.py:69-73, a synthesis request that fails with any other error: not retried
GetMp3Error(r) ==
    /\ pc[r] = "get_mp3"
    /\ attempt' = [attempt EXCEPT ![r] = @ + 1]
    /\ synthIssued' = [synthIssued EXCEPT ![r] = TRUE]
    /\ lastErr' = [lastErr EXCEPT ![r] = "APIError"]
    /\ Goto(r, "except")
    /\ UNCHANGED <<authVars, pool, slept, err, docVars, llmVars, idx, waits, audio, transcript,
                   characters, results, sweepVars, dirVars>>

\* Variant of Wait that gives up the waiting line and turns to the next one.
WaitMovesOn(r) ==
    /\ pc[r] = "wait"
    /\ idx' = [idx EXCEPT ![r] = IF @ < Len(llm_output[r]) THEN @ + 1 ELSE @]
    /\ Goto(r, "get_mp3")
    /\ UNCHANGED <<authVars, pool, slept, err, docVars, llmVars, attempt, waits, lastErr, audio,
                   transcript, characters, results, synthIssued, sweepVars, dirVars>>

\* main.py:71, the back-off sleep before the next attempt
Wait(r) ==
    /\ pc[r] = "wait"
    /\ Goto(r, "get_mp3")
    /\ UNCHANGED <<authVars, pool, slept, err, docVars, llmVars, loopVars, sweepVars, dirVars>>

\* Variant of Sleep that goes to the next line without pausing.
SleepSkipped(r) ==
    /\ pc[r] = "sleep"
    /\ idx' = [idx EXCEPT ![r] = @ + 1]
    /\ attempt' = [attempt EXCEPT ![r] = 0]
    /\ waits' = [waits EXCEPT ![r] = <<>>]
    /\ lastErr' = [lastErr EXCEPT ![r] = ""]
    /\ Goto(r, "for_line")
    /\ UNCHANGED <<authVars, pool, slept, err, docVars, llmVars, audio, transcript, characters,
                   results, synthIssued, sweepVars, dirVars>>

\* main.py:230, time.sleep(0.2), then the next line
Sleep(r) ==
    /\ pc[r] = "sleep"
    /\ slept' = [slept EXCEPT ![r] = @ + SleepMs]
    /\ idx' = [idx EXCEPT ![r] = @ + 1]
    /\ attempt' = [attempt EXCEPT ![r] = 0]
    /\ waits' = [waits EXCEPT ![r] = <<>>]
    /\ lastErr' = [lastErr EXCEPT ![r] = ""]
    /\ Goto(r, "for_line")
    /\ UNCHANGED <<authVars, pool, err, docVars, llmVars, audio, transcript, characters, results,
                   synthIssued, sweepVars, dirVars>>

\* Variant of Except that swallows the error without recording the line.
ExceptSkipsRecord(r) ==
    /\ pc[r] = "except"
    /\ results' = [results EXCEPT ![r] = Append(@, [kind |-> lastErr[r], chunk |-> <<>>])]
    /\ lastErr' = [lastErr EXCEPT ![r] = ""]
    /\ idx' = [idx EXCEPT ![r] = @ + 1]
    /\ attempt' = [attempt EXCEPT ![r] = 0]
    /\ waits' = [waits EXCEPT ![r] = <<>>]
    /\ Goto(r, "for_line")
    /\ UNCHANGED <<authVars, pool, slept, err, docVars, llmVars, audio, transcript, characters,
                   synthIssued, sweepVars, dirVars>>

\* main.py:232-235, the except clause, then the next line
Except(r) ==
    /\ pc[r] = "except"
    /\ transcript' = [transcript EXCEPT ![r] = @ \o FailedRecord(Line(r))]
    /\ results' = [results EXCEPT ![r] = Append(@, [kind |-> lastErr[r], chunk |-> <<>>])]
    /\ lastErr' = [lastErr EXCEPT ![r] = ""]
    /\ idx' = [idx EXCEPT ![r] = @ + 1]
    /\ attempt' = [attempt EXCEPT ![r] = 0]
    /\ waits' = [waits EXCEPT ![r] = <<>>]
    /\ Goto(r, "for_line")
    /\ UNCHANGED <<authVars, pool, slept, err, docVars, llmVars, audio, characters, synthIssued,
                   sweepVars, dirVars>>

\* main.py:239-240
MakeDirs(r) ==
    /\ pc[r] = "makedirs"
    /\ dirExists' = TRUE
    /\ Goto(r, "create_temp")
    /\ UNCHANGED <<authVars, pool, slept, err, docVars, llmVars, loopVars, sweepVars, temporary_file,
                   fs, now>>

\* Variant of CreateTemp that opens the chosen name whether or not it exists
\* (open(name, "wb") instead of NamedTemporaryFile).
CreateTempOverwrites(r) ==
    /\ pc[r] = "create_temp"
    /\ dirExists
    /\ \E c \in RandomChars, t \in ClockReadings(now) :
          /\ now' = t
          /\ fs' = WithFile(fs, TempName(c), [kind |-> "file", mtime |-> t, data |-> <<>>])
          /\ temporary_file' = [temporary_file EXCEPT ![r] = TempName(c)]
    /\ Goto(r, "write_close")
    /\ UNCHANGED <<authVars, pool, slept, err, docVars, llmVars, loopVars, sweepVars, dirExists>>

\* main.py:243-247, NamedTemporaryFile creates a new, empty file under a name
\* that does not exist
CreateTemp(r) ==
    /\ pc[r] = "create_temp"
    /\ dirExists
    /\ \E c \in RandomChars, t \in ClockReadings(now) :
          /\ TempName(c) \notin DOMAIN fs
          /\ now' = t
          /\ fs' = WithFile(fs, TempName(c), [kind |-> "file", mtime |-> t, data |-> <<>>])
          /\ temporary_file' = [temporary_file EXCEPT ![r] = TempName(c)]
    /\ Goto(r, "write_close")
    /\ UNCHANGED <<authVars, pool, slept, err, docVars, llmVars, loopVars, sweepVars, dirExists>>

\* main.py:248-249, the bytes reach the file; a file unlinked meanwhile stays
\* unlinked
WriteClose(r) ==
    /\ pc[r] = "write_close"
    /\ \E t \in ClockReadings(now) :
          /\ now' = t
          /\ fs' = IF temporary_file[r] \in DOMAIN fs
                   THEN WithFile(fs, temporary_file[r],
                                 [kind |-> "file", mtime |-> t, data |-> audio[r]])
                   ELSE fs
    /\ Goto(r, "glob")
    /\ UNCHANGED <<authVars, pool, slept, err, docVars, llmVars, loopVars, sweepVars, temporary_file,
                   dirExists>>

\* main.py:252, glob.glob lists the directory once
Glob(r) ==
    /\ pc[r] = "glob"
    /\ todo' = [todo EXCEPT ![r] = {n \in DOMAIN fs : GlobMatch(n)}]
    /\ staleAtGlob' = [staleAtGlob EXCEPT ![r] =
          {n \in DOMAIN fs : /\ EndsWith(n, Mp3Suffix)
                             /\ fs[n].kind = "file"
                             /\ now - fs[n].mtime > Retention}]
    /\ Goto(r, "sweep")
    /\ UNCHANGED <<authVars, pool, slept, err, docVars, llmVars, loopVars, file, dirVars>>

\* main.py:252-253, the next name of the list (glob's order is arbitrary) and
\* os.path.isfile
SweepNext(r) ==
    /\ pc[r] = "sweep"
    /\ \E f \in todo[r] :
          /\ file' = [file EXCEPT ![r] = f]
          /\ todo' = [todo EXCEPT ![r] = @ \ {f}]
          /\ IF isfile(fs, f) THEN Goto(r, "getmtime") ELSE UNCHANGED pc
    /\ UNCHANGED <<authVars, pool, slept, err, docVars, llmVars, loopVars, staleAtGlob, dirVars>>

\* main.py:253, time.time() - os.path.getmtime(file) > 24 * 60 * 60;
\* getmtime raises FileNotFoundError when the file is gone
GetMTime(r) ==
    /\ pc[r] = "getmtime"
    /\ \E t \in ClockReadings(now) :
          /\ now' = t
          /\ IF file[r] \notin DOMAIN fs
             THEN Raise(r, "FileNotFoundError")
             ELSE /\ Goto(r, IF t - fs[file[r]].mtime > Retention THEN "remove" ELSE "sweep")
                  /\ UNCHANGED err
    /\ UNCHANGED <<authVars, pool, slept, docVars, llmVars, loopVars, sweepVars, temporary_file, fs,
                   dirExists>>

\* main.py:254, os.remove raises FileNotFoundError when the file is gone
Remove(r) ==
    /\ pc[r] = "remove"
    /\ IF file[r] \notin DOMAIN fs
       THEN Raise(r, "FileNotFoundError") /\ UNCHANGED fs
       ELSE /\ fs' = WithoutFile(fs, file[r])
            /\ Goto(r, "sweep")
            /\ UNCHANGED err
    /\ UNCHANGED <<authVars, pool, slept, docVars, llmVars, loopVars, sweepVars, temporary_file,
                   dirExists, now>>

\* main.py:256
Return(r) ==
    /\ pc[r] = "sweep"
    /\ todo[r] = {}
    /\ Goto(r, "returned")
    /\ UNCHANGED <<authVars, pool, slept, err, docVars, llmVars, loopVars, sweepVars, dirVars>>

Next ==
    \E r \in Requests :
        \/ CheckKey(r)
        \/ ReadDocument(r)
        \/ ReadDocumentFails(r)
        \/ GenerateDialogue(r)
        \/ GenerateDialogueFails(r)
        \/ ForLine(r)
        \/ GetMp3Ok(r)
        \/ GetMp3RateLimited(r)
        \/ GetMp3Error(r)
        \/ Wait(r)
        \/ Sleep(r)
        \/ Except(r)
        \/ MakeDirs(r)
        \/ CreateTemp(r)
        \/ WriteClose(r)
        \/ Glob(r)
        \/ SweepNext(r)
        \/ GetMTime(r)
        \/ Remove(r)
        \/ Return(r)

Spec == Init /\ [][Next]_vars

\* The persistence phase alone (main.py:239-256).
NextPersist ==
    \E r \in Requests :
        \/ MakeDirs(r)
        \/ CreateTemp(r)
        \/ WriteClose(r)
        \/ Glob(r)
        \/ SweepNext(r)
        \/ GetMTime(r)
        \/ Remove(r)
        \/ Return(r)

SpecPersist == InitPersist /\ [][NextPersist]_vars

\* The loop over the lines and the writing of the artifact (main.py:213-249).
NextPair ==
    \E r \in Requests :
        \/ ForLine(r)
        \/ GetMp3Ok(r)
        \/ GetMp3RateLimited(r)
        \/ GetMp3Error(r)
        \/ Wait(r)
        \/ Sleep(r)
        \/ Except(r)
        \/ MakeDirs(r)
        \/ CreateTemp(r)
        \/ WriteClose(r)

SpecPair == InitPair /\ [][NextPair]_vars

(***************************************************************************)
(* The sign-in operations.                                                 *)
(***************************************************************************)
\* No request is being served; the deployment has any combination of the two
\* files.
InitAuth ==
    /\ InitRuns({}, {})
    /\ credentials_json \in BOOLEAN
    /\ token_json \in TokenStates
    /\ auth_status_output = AuthStatusPlaceholder
    /\ auth_url_output = AuthUrlPlaceholder
    /\ callback_output = <<>>
    /\ callback_response = <<>>
    /\ auth_code = "None"

\* main.py:90-101
check_google_auth_status ==
    /\ \E refresh_ok \in BOOLEAN :
          LET e == GoogleDocsClient(credentials_json, token_json, refresh_ok)
          IN  auth_status_output' =
                  IF e = NoError THEN <<"Authenticated with Google Docs">>
                  ELSE IF \/ Contains(e, "OAuth authentication required")
                          \/ Contains(e, "Credentials file")
                       THEN <<"Not authenticated with Google Docs">>
                       ELSE <<"Error: ">> \o e
    /\ UNCHANGED <<runVars, credentials_json, token_json, auth_url_output,
                   callback_output, callback_response, auth_code>>

\* main.py:104-117
get_google_auth_url ==
    /\ \E refresh_ok \in BOOLEAN :
          LET auth_url == create_google_oauth_url(credentials_json, token_json, refresh_ok)
          IN  auth_url_output' =
                  IF auth_url.raised
                  THEN <<"Error creating auth URL: ">> \o auth_url.value
                  ELSE <<"Click the link below to authenticate with Google Docs:">>
                          \o auth_url.value
    /\ UNCHANGED <<runVars, credentials_json, token_json, auth_status_output,
                   callback_output, callback_response, auth_code>>

\* main.py:120-126
handle_google_auth_callback ==
    /\ \E code \in AuthCodes, refresh_ok \in BOOLEAN :
          LET done == authenticate_google_docs(code, credentials_json, token_json,
                                               refresh_ok)
          IN  /\ auth_code' = code
              /\ token_json' = done.token
              /\ callback_output' =
                    IF done.raised = NoError
                    THEN <<"Successfully authenticated with Google Docs!">>
                    ELSE <<"Authentication failed: ">> \o done.raised
    /\ UNCHANGED <<runVars, credentials_json, auth_status_output, auth_url_output,
                   callback_response>>

\* main.py:32-48, GET /oauth2callback
oauth_callback ==
    /\ \E code \in AuthCodes \cup {"None"}, error \in {"None", "access_denied"},
          refresh_ok \in BOOLEAN :
          IF error # "None"
          THEN /\ callback_response' = <<"error", error>>
               /\ UNCHANGED <<token_json, auth_code>>
          ELSE IF code = "None"
               THEN /\ callback_response' = <<"error", "No authorization code received">>
                    /\ UNCHANGED <<token_json, auth_code>>
               ELSE LET done == authenticate_google_docs(code, credentials_json,
                                                         token_json, refresh_ok)
                    IN  /\ auth_code' = code
                        /\ token_json' = done.token
                        /\ callback_response' =
                              IF done.raised = NoError
                              THEN <<"success",
                                     "Successfully authenticated with Google Docs! You can now close this window and return to the main application.">>
                              ELSE <<"error", "Authentication failed: ">> \o done.raised
    /\ UNCHANGED <<runVars, credentials_json, auth_status_output, auth_url_output,
                   callback_output>>

\* The access token of a valid token.json runs out.
TokenExpires ==
    /\ token_json = "valid"
    /\ token_json' = "expired"
    /\ UNCHANGED <<runVars, credentials_json, auth_status_output, auth_url_output,
                   callback_output, callback_response, auth_code>>

NextAuth ==
    \/ check_google_auth_status
    \/ get_google_auth_url
    \/ handle_google_auth_callback
    \/ oauth_callback
    \/ TokenExpires

SpecAuth == InitAuth /\ [][NextAuth]_vars

(***************************************************************************)
(* Properties.                                                             *)
(***************************************************************************)

\* The records of a transcript: the pieces between the "\n\n" terminators.
RECURSIVE SplitRecords(_)
SplitRecords(t) ==
    IF t = <<>> THEN <<>>
    ELSE IF \E i \in 1..Len(t) : t[i] = RecordEnd
         THEN LET k == CHOOSE i \in 1..Len(t) :
                          t[i] = RecordEnd /\ \A j \in 1..(i - 1) : t[j] # RecordEnd
              IN  <<SubSeq(t, 1, k - 1)>> \o SplitRecords(SubSeq(t, k + 1, Len(t)))
         ELSE <<t>>

HasMarker(rec) == rec # <<>> /\ rec[Len(rec)] = FailureMarker

\* Concatenation of the chunks of the lines that were synthesized, in order.
RECURSIVE OkChunks(_)
OkChunks(res) ==
    IF res = <<>> THEN <<>>
    ELSE (IF Head(res).kind = "ok" THEN Head(res).chunk ELSE <<>>) \o OkChunks(Tail(res))

Failed(r, k) == results[r][k].kind # "ok"

AllOk(r) == \A k \in 1..Len(results[r]) : results[r][k].kind = "ok"

IsBlank(t) == \A i \in 1..Len(t) : t[i] \in Whitespace

\* C1: the transcript generate_audio returns holds exactly one record per
\* dialogue line, in dialogue order; record k is "{speaker_k}: {text_k}",
\* optionally followed by the failure marker, whatever the synthesis outcomes.
C1_TranscriptOneRecordPerLine ==
    \A r \in Requests :
        pc[r] = "returned" =>
            LET recs == SplitRecords(transcript[r])
                lines == llm_output[r]
            IN  /\ Len(recs) = Len(lines)
                /\ \A k \in 1..Len(lines) :
                      \/ recs[k] = <<lines[k].speaker, ": ">> \o lines[k].text
                      \/ recs[k] = <<lines[k].speaker, ": ">> \o lines[k].text
                                      \o <<" [AUDIO GENERATION FAILED]">>

\* A two-line run returned whose first line was synthesized and whose second
\* line failed.
C1_Witness ==
    \E r \in Requests :
        /\ pc[r] = "returned"
        /\ Len(llm_output[r]) = 2
        /\ llm_output[r][1] # llm_output[r][2]
        /\ results[r][1].kind = "ok"
        /\ results[r][2].kind = "APIError"

\* C2: the audio is the in-order concatenation of the payloads of the lines
\* whose synthesis succeeded (a failed line contributes no byte), and a
\* transcript record carries the failure marker exactly when that line's
\* synthesis failed, after exhausted retries or on a non-retryable error.
C2_FailedLinesMarkedAndSilent ==
    \A r \in Requests :
        pc[r] = "returned" =>
            LET recs == SplitRecords(transcript[r])
            IN  /\ Len(results[r]) = Len(llm_output[r])
                /\ Len(recs) = Len(results[r])
                /\ audio[r] = OkChunks(results[r])
                /\ \A k \in 1..Len(recs) : HasMarker(recs[k]) <=> Failed(r, k)

\* A two-line run returned in which only the first line failed: the audio is
\* the second line's payload alone.
C2_Witness ==
    \E r \in Requests :
        /\ pc[r] = "returned"
        /\ Len(llm_output[r]) = 2
        /\ results[r][1].kind = "APIError"
        /\ results[r][2].kind = "ok"
        /\ audio[r] = results[r][2].chunk
        /\ HasMarker(SplitRecords(transcript[r])[1])
        /\ ~HasMarker(SplitRecords(transcript[r])[2])

\* C3: when every synthesis succeeded, the bytes written to the artifact are
\* the payloads of the lines concatenated in dialogue order.
C3_ArtifactIsOrderedConcatenation ==
    \A r \in Requests :
        (pc[r] \in {"glob", "sweep", "getmtime", "remove", "returned"} /\ AllOk(r)) =>
            /\ Len(results[r]) = Len(llm_output[r])
            /\ pc[r] = "glob" => temporary_file[r] \in DOMAIN fs
            /\ temporary_file[r] \in DOMAIN fs =>
                  fs[temporary_file[r]].data = OkChunks(results[r])

\* A two-line run returned, both lines synthesized into different payloads, the
\* artifact still in the directory.
C3_Witness ==
    \E r \in Requests :
        /\ pc[r] = "returned"
        /\ Len(llm_output[r]) = 2
        /\ AllOk(r)
        /\ results[r][1].chunk # results[r][2].chunk
        /\ temporary_file[r] \in DOMAIN fs
        /\ fs[temporary_file[r]].data = results[r][1].chunk \o results[r][2].chunk

\* C4: under a sustained rate limit get_mp3 issues exactly 5 synthesis requests
\* for the line and then stops (no sixth request, no wait after the fifth); the
\* error reaches the loop as a failure of that line only: the except clause
\* takes it, and a run with such a line never ends in an exception.
C4_RateLimitFiveAttemptsThenLineFailure ==
    \A r \in Requests :
        /\ lastErr[r] = "RetryError" => (pc[r] = "except" /\ attempt[r] = 5)
        /\ pc[r] \in {"wait", "get_mp3"} => attempt[r] < 5
        /\ attempt[r] <= 5
        /\ (\E k \in 1..Len(results[r]) : results[r][k].kind = "RetryError") =>
              pc[r] # "raised"

\* A two-line run returned whose first line exhausted its retries and whose
\* second line was then synthesized.
C4_Witness ==
    \E r \in Requests :
        /\ pc[r] = "returned"
        /\ Len(llm_output[r]) = 2
        /\ results[r][1].kind = "RetryError"
        /\ results[r][2].kind = "ok"

\* C5 as stated: a line that fails with an error other than a rate-limit error
\* has had exactly one synthesis request and no back-off wait.
C5_Original ==
    \A r \in Requests :
        lastErr[r] = "APIError" => (attempt[r] = 1 /\ waits[r] = <<>>)

\* C5 amended: an error other than a rate-limit error is never retried: it is
\* followed by no wait and no further request for the line, which degrades at
\* once to a per-line failure; the waits of the line are those of the
\* rate-limited requests before it, so a line whose first request fails this
\* way has had exactly one request and no wait.
C5_NoRetryOnOtherError ==
    \A r \in Requests :
        /\ pc[r] = "wait" => lastErr[r] = "RateLimitError"
        /\ lastErr[r] = "APIError" =>
              /\ pc[r] = "except"
              /\ Len(waits[r]) = attempt[r] - 1
              /\ attempt[r] = 1 => waits[r] = <<>>

\* The first request of a line failed with a non-rate-limit error: one
\* request, no wait, the except clause is next.
C5_Witness ==
    \E r \in Requests :
        /\ pc[r] = "except"
        /\ lastErr[r] = "APIError"
        /\ attempt[r] = 1
        /\ waits[r] = <<>>

\* C6: regeneration after a schema-validation failure is bounded: once the
\* dialogue generator has failed validation as often as this exploration lets
\* it be called, the run has surfaced a fatal error instead of standing ready
\* to call the generator again.
C6_RegenerationBounded ==
    \A r \in Requests :
        ~(pc[r] = "generate_dialogue" /\ llmCalls[r] >= MaxLlmCalls)

\* C7: a document source that yields empty or whitespace-only text, PDF or
\* Google Docs, aborts the run before the dialogue generator or the
\* synthesizer is invoked: no LLM call and no synthesis request is made with a
\* blank text.
C7_EmptyTextAbortsBeforeExternalCalls ==
    \A r \in Requests :
        /\ err[r] \in {NoTextError(source) : source \in Sources} =>
              (pc[r] = "raised" /\ llmCalls[r] = 0 /\ ~synthIssued[r])
        /\ (llmCalls[r] > 0 \/ synthIssued[r] \/ pc[r] = "generate_dialogue") =>
              ~IsBlank(text[r])

\* A Google Docs document without text ended the run after one document read.
C7_Witness ==
    \E r \in Requests :
        /\ pc[r] = "raised"
        /\ err[r] = NoTextError("Google Docs")
        /\ docReads[r] = 1
        /\ llmCalls[r] = 0

\* C8: without credentials (no key parameter, no OPENAI_API_KEY) the run raises
\* before any document is read, any dialogue generated, any synthesis request
\* issued or any file created.
C8_MissingKeyDetectedFirst ==
    \A r \in Requests :
        (pc[r] \notin {"off", "check_key"} /\ api_key[r] # "sk-key") =>
            /\ pc[r] = "raised"
            /\ err[r] = "OpenAI API key is required"
            /\ docReads[r] = 0
            /\ llmCalls[r] = 0
            /\ ~synthIssued[r]
            /\ temporary_file[r] = <<>>
            /\ fs \in {SeedFs, EmptyFs}

\* A run without a key (empty parameter, no environment variable) has raised.
C8_Witness ==
    \E r \in Requests :
        /\ pc[r] = "raised"
        /\ err[r] = "OpenAI API key is required"
        /\ api_key[r] \in {"None", ""}

\* C9: a failure inside the retention sweep is not propagated: no run ends
\* with the exception of a sweep step (os.path.getmtime or os.remove on a file
\* that a concurrent sweep has removed).
C9_SweepFailureNotPropagated ==
    \A r \in Requests : ~(pc[r] = "raised" /\ err[r] = "FileNotFoundError")

\* C10: the sweep only removes .mp3 files older than the retention window, and
\* once a sweep has completed no .mp3 file that was older than the window when
\* the sweep began is left in the directory.
C10_SweepDeletesExactlyStale ==
    \A r \in Requests :
        /\ (pc[r] = "remove" /\ file[r] \in DOMAIN fs) =>
              now - fs[file[r]].mtime > Retention
        /\ pc[r] = "returned" => \A n \in staleAtGlob[r] : n \notin DOMAIN fs

\* Errors raised before the document has given a text: fatal preconditions.
PreconditionErrors ==
    {"OpenAI API key is required"}
        \cup {NoTextError(source) : source \in Sources}
        \cup {UnreadableError(source) : source \in Sources}

\* C11: line-level synthesis failures never become a pipeline failure: a run
\* ends in an exception only before its dialogue exists (precondition or
\* generator error); once the dialogue is generated the run finishes the loop
\* over all lines, writes one artifact and returns.
C11_OnlyEarlyErrorsEndARun ==
    \A r \in Requests :
        /\ pc[r] = "raised" =>
              /\ err[r] \in PreconditionErrors \cup {"LLM call failed"}
              /\ results[r] = <<>>
        /\ pc[r] = "returned" =>
              /\ Len(results[r]) = Len(llm_output[r])
              /\ temporary_file[r] # <<>>

\* C12 as stated: the waits of one get_mp3 call are strictly increasing, start
\* at 4 s, double from attempt to attempt and never exceed 60 s.
C12_Original ==
    \A r \in Requests :
        /\ waits[r] # <<>> => waits[r][1] = 4
        /\ \A i \in 1..Len(waits[r]) : waits[r][i] <= 60
        /\ \A i \in 1..(Len(waits[r]) - 1) :
              /\ waits[r][i + 1] > waits[r][i]
              /\ waits[r][i + 1] = 2 * waits[r][i]

\* C12 amended: the waits of one get_mp3 call never decrease, start at 4 s,
\* lie between 4 s and 60 s and at most double from one attempt to the next;
\* there are at most 4 of them.
C12_WaitsNonDecreasingClamped ==
    \A r \in Requests :
        /\ Len(waits[r]) <= 4
        /\ waits[r] # <<>> => waits[r][1] = 4
        /\ \A i \in 1..Len(waits[r]) : waits[r][i] >= 4 /\ waits[r][i] <= 60
        /\ \A i \in 1..(Len(waits[r]) - 1) :
              /\ waits[r][i + 1] >= waits[r][i]
              /\ waits[r][i + 1] <= 2 * waits[r][i]

\* A get_mp3 call that was rate-limited four times: equal waits at first, a
\* longer one at the end.
C12_Witness ==
    \E r \in Requests :
        /\ pc[r] = "wait"
        /\ Len(waits[r]) = 4
        /\ waits[r][1] = waits[r][2]
        /\ waits[r][4] > waits[r][3]

\* C13: a run that ends in a precondition error (no credentials, empty text,
\* unreadable or malformed document reference) leaves no partial output: no
\* artifact, the artifact directory as it was (not even created), no
\* transcript and no audio.
C13_PreconditionErrorLeavesNothing ==
    \A r \in Requests :
        err[r] \in PreconditionErrors =>
            /\ pc[r] = "raised"
            /\ temporary_file[r] = <<>>
            /\ transcript[r] = <<>>
            /\ audio[r] = <<>>
            /\ \/ fs = SeedFs /\ dirExists
               \/ fs = EmptyFs /\ ~dirExists

\* A Google Docs reference that cannot be fetched ended the run; the artifact
\* directory still does not exist.
C13_Witness ==
    \E r \in Requests :
        /\ pc[r] = "raised"
        /\ err[r] = UnreadableError("Google Docs")
        /\ ~dirExists

\* C14: every run that returns has processed a dialogue with at least one line.
C14_ReturnedDialogueNonEmpty ==
    \A r \in Requests : pc[r] = "returned" => Len(llm_output[r]) > 0

\* The voice identifiers of the synthesizer that the table uses.
Voices == {"alloy", "onyx", "shimmer"}

InLoop(r) == pc[r] \in {"get_mp3", "wait", "sleep", "except"}

\* C16: the speaker-to-voice lookup is total over the declared speakers and
\* gives one voice identifier for each; for the line of a validated dialogue
\* that the loop is at, the lookup gives a voice, and the same voice for the
\* same speaker wherever it occurs in the dialogue.
C16_VoiceTotalAndStable ==
    /\ \A s \in Speakers : voice(s) \in Voices
    /\ \A r \in Requests :
          InLoop(r) =>
              /\ Line(r).speaker \in Speakers
              /\ voice(Line(r).speaker) \in Voices
              /\ \A k \in 1..Len(llm_output[r]) :
                    llm_output[r][k].speaker = Line(r).speaker =>
                        voice(llm_output[r][k].speaker) = voice(Line(r).speaker)

\* The line of the third speaker was synthesized: its voice was looked up.
C16_Witness ==
    \E r \in Requests :
        /\ pc[r] = "sleep"
        /\ Line(r).speaker = "female-2"
        /\ voice(Line(r).speaker) = "shimmer"

\* The steps of request r that issue a synthesis request.
IssuesRequest(r) == attempt'[r] = attempt[r] + 1

\* C17: synthesis is serialized in dialogue order: while a line is being
\* synthesized (requests, back-off waits) exactly the lines before it are
\* finished, and every synthesis request is issued for the line the loop is at,
\* with all earlier lines finished and no later line started.
C17_SynthesisSerialized ==
    /\ [](\A r \in Requests :
            /\ pc[r] \in {"for_line", "get_mp3", "wait", "except"} =>
                  Len(results[r]) = idx[r] - 1
            /\ pc[r] = "sleep" => Len(results[r]) = idx[r]
            /\ attempt[r] > 0 => InLoop(r))
    /\ [][\A r \in Requests :
            IssuesRequest(r) =>
                /\ pc[r] = "get_mp3"
                /\ Len(results[r]) = idx[r] - 1
                /\ idx'[r] = idx[r]]_vars

\* The second line waits between two attempts, after the first line used up
\* all of its attempts.
C17_Witness ==
    \E r \in Requests :
        /\ pc[r] = "wait"
        /\ idx[r] = 2
        /\ Len(results[r]) = 1
        /\ results[r][1].kind = "RetryError"

\* C20: a line that succeeds after k rate-limited attempts (k = Len(waits[r]),
\* 0 <= k <= 4) is a success: k+1 <= 5 synthesis requests were issued for it,
\* its payload is in the accumulator exactly once, after the payloads of the
\* earlier successful lines, and its transcript record has no failure marker.
C20_SuccessAfterRateLimits ==
    \A r \in Requests :
        pc[r] = "sleep" =>
            LET recs == SplitRecords(transcript[r])
                k == Len(waits[r])
            IN  /\ k <= 4
                /\ attempt[r] = k + 1
                /\ attempt[r] <= 5
                /\ \A i \in 1..k : waits[r][i] = wait_exponential(i)
                /\ Len(results[r]) = idx[r]
                /\ results[r][idx[r]].kind = "ok"
                /\ audio[r] = OkChunks(SubSeq(results[r], 1, idx[r] - 1))
                                 \o results[r][idx[r]].chunk
                /\ Len(recs) = idx[r]
                /\ recs[idx[r]] = transcript_line(Line(r))
                /\ ~HasMarker(recs[idx[r]])

\* The second line was synthesized at the fifth attempt, after four rate-limit
\* errors; the first line had been synthesized too.
C20_Witness ==
    \E r \in Requests :
        /\ pc[r] = "sleep"
        /\ idx[r] = 2
        /\ Len(waits[r]) = 4
        /\ attempt[r] = 5
        /\ results[r][1].kind = "ok"

\* Number of lines synthesized so far.
OkCount(res) == Cardinality({k \in 1..Len(res) : res[k].kind = "ok"})

\* C18: every successful synthesis of a line is followed by one pause of
\* 200 ms, taken after the line's audio and transcript record were appended
\* and before anything else happens for the next line: when the pause is due
\* the line is already in the accumulator and the transcript, and whenever a
\* synthesis request can be issued the run has paused once per synthesized line.
C18_PauseAfterEachSuccess ==
    \A r \in Requests :
        /\ pc[r] = "sleep" =>
              /\ slept[r] = 200 * (OkCount(results[r]) - 1)
              /\ Len(results[r]) = idx[r]
              /\ results[r][idx[r]].kind = "ok"
              /\ audio[r] = OkChunks(results[r])
              /\ Len(SplitRecords(transcript[r])) = idx[r]
        /\ pc[r] # "sleep" => slept[r] = 200 * OkCount(results[r])

\* The request for the second line is about to be issued: the first line was
\* synthesized and the run has paused once.
C18_Witness ==
    \E r \in Requests :
        /\ pc[r] = "get_mp3"
        /\ idx[r] = 2
        /\ attempt[r] = 0
        /\ results[r][1].kind = "ok"
        /\ slept[r] = 200

\* The transcript that the dialogue `lines` and the outcomes `res` of its first
\* Len(res) lines give.
RECURSIVE TranscriptOf(_, _)
TranscriptOf(lines, res) ==
    IF res = <<>> THEN <<>>
    ELSE TranscriptOf(lines, SubSeq(res, 1, Len(res) - 1))
            \o (IF res[Len(res)].kind = "ok"
                THEN <<lines[Len(res)].speaker, ": ">> \o lines[Len(res)].text
                        \o <<"\n\n">>
                ELSE <<lines[Len(res)].speaker, ": ">> \o lines[Len(res)].text
                        \o <<" [AUDIO GENERATION FAILED]", "\n\n">>)

\* C19: two concurrently served runs do not interfere: at every moment of
\* every interleaving each run's accumulator and transcript are what its own
\* dialogue and its own synthesis outcomes give; the two artifacts have
\* different names, each is created under a name that did not exist, no step
\* changes a file other than the artifact of the run that takes it, and after
\* its write each artifact holds its own run's audio.
C19_RunsDoNotInterfere ==
    /\ [](\A r \in Requests :
            /\ llm_output[r] = PairStart[r]
            /\ audio[r] = OkChunks(results[r])
            /\ transcript[r] = TranscriptOf(PairStart[r], results[r])
            /\ pc[r] = "glob" =>
                  /\ temporary_file[r] \in DOMAIN fs
                  /\ fs[temporary_file[r]].data = audio[r]
            /\ \A q \in Requests \ {r} :
                  temporary_file[r] # <<>> => temporary_file[r] # temporary_file[q])
    /\ [][\A r \in Requests :
            /\ temporary_file'[r] # temporary_file[r] =>
                  /\ temporary_file'[r] \notin DOMAIN fs
                  /\ temporary_file'[r] \in DOMAIN fs'
            /\ (pc'[r] # pc[r]) =>
                  \A n \in DOMAIN fs :
                      /\ n \in DOMAIN fs'
                      /\ fs'[n] # fs[n] => (n = temporary_file[r] /\ pc[r] = "write_close")]_vars

\* Both runs have written their artifacts: two files, each with its own run's
\* audio, one run with a failed line and the other without.
C19_Witness ==
    /\ pc["r1"] = "glob" /\ pc["r2"] = "glob"
    /\ temporary_file["r1"] # temporary_file["r2"]
    /\ fs[temporary_file["r1"]].data = audio["r1"]
    /\ fs[temporary_file["r2"]].data = audio["r2"]
    /\ audio["r1"] # audio["r2"]
    /\ results["r1"][1].kind = "RetryError"
    /\ results["r1"][2].kind = "ok"
    /\ results["r2"][1].kind = "ok"

\* C15: with credentials.json present and no valid token, the documented
\* sign-in works: "Get Auth URL" shows the authorization link, and a callback
\* with a good authorization code stores a token and answers with success.
C15_SignInFlowWorks ==
    credentials_json =>
        /\ (token_json \in {"absent", "unusable"}
               /\ auth_url_output # <<"Click 'Get Auth URL' to get the authorization link">>)
              => auth_url_output
                    = <<"Click the link below to authenticate with Google Docs:",
                        "https://accounts.google.com/o/oauth2/auth?access_type=offline">>
        /\ auth_code = "good" => token_json \in {"valid", "expired"}

====
